---------------------------- MODULE Spec2Model ----------------------------
(***************************************************************************)
(* Model of src/src/index.ts: the LUIS client.  create() binds credentials *)
(* into two closures; callApi() picks the endpoint, builds the Url object, *)
(* creates a promise and hands uri.href to the HTTP transport ("request"), *)
(* whose callback rejects on a transport error and otherwise resolves with *)
(* JSON.parse(body).                                                       *)
(*                                                                         *)
(* Strings are sequences of chunks (one-character strings, or an atomic    *)
(* word that holds no character the model inspects), so that concatenation,*)
(* percent-encoding and JSON parsing are computed.                         *)
(***************************************************************************)
EXTENDS Integers, Sequences, FiniteSets, TLC

VARIABLES apps, calls, promises, requests, thrown, uncaught

vars == <<apps, calls, promises, requests, thrown, uncaught>>

(***************************************************************************)
(* Bounds and input sets.                                                  *)
(***************************************************************************)
\* The number of dispatcher invocations a behaviour makes.
MaxCalls == 2

\* JavaScript's null / undefined.
Null == [null |-> TRUE]

\* enum Version { None, V1, V1Preview }
Version == {"None", "V1", "V1Preview"}

\* The credentials handed to create(): the spec's example, and the empty
\* strings, which create() accepts unvalidated.
Credentials ==
    { [applicationId |-> <<"app-123">>, subscriptionKey |-> <<"key-abc">>],
      [applicationId |-> <<>>, subscriptionKey |-> <<>>] }

\* The query texts: the spec's example (with spaces, which the URL encoding
\* changes) and a one-word query.
Queries == {<<"book", " ", "a", " ", "flight">>, <<"hi">>}

\* The error values the transport passes to the callback.
TransportErrors == {[code |-> "ECONNREFUSED"], [code |-> "ETIMEDOUT"]}

\* The HTTP status codes of the delivered responses.
StatusCodes == {200, 401}

\* The response bodies: the document {"q": [1]}, the same document cut
\* short, and the empty string.
WellFormedBody == <<"{", "\"", "q", "\"", ":", " ", "[", "1", "]", "}">>

Bodies ==
    { [str |-> WellFormedBody],
      [str |-> SubSeq(WellFormedBody, 1, 5)],
      [str |-> <<>>] }

(***************************************************************************)
(* The "url" module: url.parse and the Url object.                         *)
(***************************************************************************)
\* The index of the first chunk of s equal to c, or 0.
IndexOf(s, c) ==
    IF \E i \in 1..Len(s) : s[i] = c
    THEN CHOOSE i \in 1..Len(s) : s[i] = c /\ \A j \in 1..(i - 1) : s[j] # c
    ELSE 0

\* url.parse(s): the Url object.  href is a data property holding the
\* string as parsed; search and query hold the part from the first "?",
\* null when there is none.
UrlParse(s) ==
    LET q == IndexOf(s, "?")
    IN  [ href   |-> s,
          search |-> IF q = 0 THEN Null ELSE [str |-> SubSeq(s, q, Len(s))],
          query  |-> IF q = 0 THEN Null ELSE [str |-> SubSeq(s, q + 1, Len(s))] ]

(***************************************************************************)
(* JSON.parse, on the documents made of white space, non-negative          *)
(* integers, strings without escapes, arrays and objects.                  *)
(***************************************************************************)
Digits == <<"0", "1", "2", "3", "4", "5", "6", "7", "8", "9">>

IsDigit(c) == \E d \in 1..Len(Digits) : Digits[d] = c

DigitValue(c) == (CHOOSE d \in 1..Len(Digits) : Digits[d] = c) - 1

Fail == [ok |-> FALSE, val |-> Null, next |-> 0]

RECURSIVE SkipWs(_, _)
SkipWs(s, i) == IF i <= Len(s) /\ s[i] = " " THEN SkipWs(s, i + 1) ELSE i

RECURSIVE ParseDigits(_, _, _)
\* The digits from position i on, with the value n read so far.
ParseDigits(s, i, n) ==
    IF i <= Len(s) /\ IsDigit(s[i])
    THEN ParseDigits(s, i + 1, 10 * n + DigitValue(s[i]))
    ELSE [ok |-> TRUE, val |-> [num |-> n], next |-> i]

\* A number: 0, or a non-zero digit followed by digits.
ParseNumber(s, i) ==
    IF s[i] = "0"
    THEN [ok |-> TRUE, val |-> [num |-> 0], next |-> i + 1]
    ELSE ParseDigits(s, i, 0)

RECURSIVE ParseChars(_, _, _)
\* The characters of a string from position i on, up to the closing quote.
ParseChars(s, i, acc) ==
    IF i > Len(s) \/ s[i] = "\\" THEN Fail
    ELSE IF s[i] = "\"" THEN [ok |-> TRUE, val |-> [str |-> acc], next |-> i + 1]
    ELSE ParseChars(s, i + 1, Append(acc, s[i]))

ParseString(s, i) == ParseChars(s, i + 1, <<>>)

RECURSIVE ParseValue(_, _), ParseElements(_, _, _), ParseMembers(_, _, _)
\* The value that starts at position i, white space skipped.
ParseValue(s, i0) ==
    LET i == SkipWs(s, i0)
    IN  IF i > Len(s) THEN Fail
        ELSE IF IsDigit(s[i]) THEN ParseNumber(s, i)
        ELSE IF s[i] = "\"" THEN ParseString(s, i)
        ELSE IF s[i] = "["
             THEN LET j == SkipWs(s, i + 1)
                  IN  IF j <= Len(s) /\ s[j] = "]"
                      THEN [ok |-> TRUE, val |-> [arr |-> <<>>], next |-> j + 1]
                      ELSE ParseElements(s, i + 1, <<>>)
        ELSE IF s[i] = "{"
             THEN LET j == SkipWs(s, i + 1)
                  IN  IF j <= Len(s) /\ s[j] = "}"
                      THEN [ok |-> TRUE, val |-> [obj |-> <<>>], next |-> j + 1]
                      ELSE ParseMembers(s, i + 1, <<>>)
        ELSE Fail

\* The elements of an array from position i on, after those of acc.
ParseElements(s, i, acc) ==
    LET v == ParseValue(s, i)
    IN  IF ~v.ok THEN Fail
        ELSE LET j == SkipWs(s, v.next)
             IN  IF j > Len(s) THEN Fail
                 ELSE IF s[j] = "," THEN ParseElements(s, j + 1, Append(acc, v.val))
                 ELSE IF s[j] = "]"
                      THEN [ok |-> TRUE, val |-> [arr |-> Append(acc, v.val)], next |-> j + 1]
                 ELSE Fail

\* The members of an object from position i on, after those of acc; a
\* repeated key keeps its last value.
ParseMembers(s, i, acc) ==
    LET k == SkipWs(s, i)
    IN  IF k > Len(s) \/ s[k] # "\"" THEN Fail
        ELSE LET key == ParseString(s, k)
             IN  IF ~key.ok THEN Fail
                 ELSE LET c == SkipWs(s, key.next)
                      IN  IF c > Len(s) \/ s[c] # ":" THEN Fail
                          ELSE LET v == ParseValue(s, c + 1)
                               IN  IF ~v.ok THEN Fail
                                   ELSE LET j == SkipWs(s, v.next)
                                            members == (key.val.str :> v.val) @@ acc
                                        IN  IF j > Len(s) THEN Fail
                                            ELSE IF s[j] = "," THEN ParseMembers(s, j + 1, members)
                                            ELSE IF s[j] = "}"
                                                 THEN [ok |-> TRUE, val |-> [obj |-> members], next |-> j + 1]
                                            ELSE Fail

\* The string JSON.parse reads: its argument converted to a string.
StringOf(v) == IF v = Null THEN <<"undefined">> ELSE v.str

\* JSON.parse(body): the value, or the SyntaxError it throws.
JSONParse(body) ==
    LET text == StringOf(body)
        v == ParseValue(text, 1)
    IN  IF v.ok /\ SkipWs(text, v.next) > Len(text)
        THEN [threw |-> FALSE, val |-> v.val]
        ELSE [threw |-> TRUE, val |-> [name |-> "SyntaxError"]]

(***************************************************************************)
(* The program state.                                                      *)
(*   apps      the credentials bound in the Application objects returned   *)
(*             by create()                                                 *)
(*   calls     the invocations of callApi, in order, with their arguments  *)
(*   promises  the promises callApi created: the call, the state, the      *)
(*             value or reason, and how often resolve/reject was invoked   *)
(*   requests  the requests handed to the transport: the URI, the promise  *)
(*             whose resolve/reject the callback closes over, and what the *)
(*             transport delivered to the callback                         *)
(*   thrown    the errors callApi threw to its caller                      *)
(*   uncaught  the errors thrown out of a transport callback (the host     *)
(*             may end the process there, or go on under a handler: the    *)
(*             model goes on, which covers both)                           *)
(***************************************************************************)
Init ==
    /\ apps = {}
    /\ calls = <<>>
    /\ promises = <<>>
    /\ requests = <<>>
    /\ thrown = <<>>
    /\ uncaught = <<>>

\* create(applicationId, subscriptionKey): returns the two closures over
\* the credentials.
Create(applicationId, subscriptionKey) ==
    /\ apps' = apps \cup {[applicationId |-> applicationId,
                           subscriptionKey |-> subscriptionKey]}
    /\ UNCHANGED <<calls, promises, requests, thrown, uncaught>>

\* BaseUri with the V1Preview case returning the V1 endpoint.
BaseUriPreviewIsV1(version) ==
    IF version \in {"V1", "V1Preview"}
    THEN [threw |-> FALSE,
          val |-> <<"https://api.projectoxford.ai/luis/v1/application">>]
    ELSE [threw |-> TRUE,
          val |-> <<"The specified version '", version, "' is not supported.">>]

\* BaseUri with a default case that falls back to the V1 endpoint.
BaseUriDefaultsToV1(version) ==
    IF version = "V1Preview"
    THEN [threw |-> FALSE,
          val |-> <<"https://api.projectoxford.ai/luis/v1/application/preview">>]
    ELSE [threw |-> FALSE,
          val |-> <<"https://api.projectoxford.ai/luis/v1/application">>]

\* The switch of callApi: the base URI of the version, or the Error thrown.
BaseUri(version) ==
    CASE version = "V1" ->
           [threw |-> FALSE,
            val |-> <<"https://api.projectoxford.ai/luis/v1/application">>]
      [] version = "V1Preview" ->
           [threw |-> FALSE,
            val |-> <<"https://api.projectoxford.ai/luis/v1/application/preview">>]
      [] OTHER ->
           [threw |-> TRUE,
            val |-> <<"The specified version '", version, "' is not supported.">>]

\* The Url object of callApi: url.parse(baseUri) with its query property
\* assigned.
RequestUri(baseUri, query, applicationId, subscriptionKey) ==
    [UrlParse(baseUri) EXCEPT
        !.query = [id |-> applicationId,
                   subscription_key |-> subscriptionKey,
                   q |-> query]]

\* callApi(query, version, applicationId, subscriptionKey), invoked by
\* caller: throws, or creates the promise, whose executor hands uri.href
\* and the callback to the transport.
CallApi(caller, query, version, applicationId, subscriptionKey) ==
    LET baseUri == BaseUri(version)
        call == Len(calls) + 1
    IN  /\ Len(calls) < MaxCalls
        /\ calls' = Append(calls, [caller |-> caller,
                                   query |-> query,
                                   version |-> version,
                                   applicationId |-> applicationId,
                                   subscriptionKey |-> subscriptionKey])
        /\ IF baseUri.threw
           THEN /\ thrown' = Append(thrown, [call |-> call, message |-> baseUri.val])
                /\ UNCHANGED <<promises, requests>>
           ELSE LET uri == RequestUri(baseUri.val, query, applicationId, subscriptionKey)
                IN  /\ promises' = Append(promises, [call |-> call,
                                                     state |-> "pending",
                                                     value |-> Null,
                                                     settles |-> 0])
                    /\ requests' = Append(requests, [href |-> uri.href,
                                                     call |-> call,
                                                     promise |-> Len(promises) + 1,
                                                     completed |-> FALSE,
                                                     error |-> Null,
                                                     response |-> Null,
                                                     body |-> Null])
                    /\ UNCHANGED thrown
        /\ UNCHANGED <<apps, uncaught>>

\* Application.queryV1(query) of the application app.
QueryV1(app, query) ==
    /\ app \in apps
    /\ CallApi("queryV1", query, "V1", app.applicationId, app.subscriptionKey)

\* Application.queryV1Preview(query) of the application app.
QueryV1Preview(app, query) ==
    /\ app \in apps
    /\ CallApi("queryV1Preview", query, "V1Preview", app.applicationId,
               app.subscriptionKey)

\* resolve(value) / reject(reason) of promise p: the first invocation
\* settles the promise, a later one changes nothing.
Settle(p, state, value) ==
    [promises EXCEPT ![p] =
        IF @.state = "pending"
        THEN [@ EXCEPT !.state = state, !.value = value, !.settles = @ + 1]
        ELSE [@ EXCEPT !.settles = @ + 1]]

\* The requests once the transport has invoked the callback of request r
\* with (error, response, body).
Delivered(r, error, response, body) ==
    [requests EXCEPT ![r] = [@ EXCEPT !.completed = TRUE,
                                      !.error = error,
                                      !.response = response,
                                      !.body = body]]

\* RequestCallback without the test of error.
RequestCallbackIgnoresError(r, error, response, body) ==
    /\ requests' = Delivered(r, error, response, body)
    /\ LET parsed == JSONParse(body)
       IN  IF parsed.threw
           THEN /\ uncaught' = Append(uncaught, [request |-> r, error |-> parsed.val])
                /\ UNCHANGED promises
           ELSE /\ promises' = Settle(requests[r].promise, "resolved", parsed.val)
                /\ UNCHANGED uncaught
    /\ UNCHANGED <<apps, calls, thrown>>

\* RequestCallback rejecting a response whose status is not 200.
RequestCallbackChecksStatus(r, error, response, body) ==
    /\ requests' = Delivered(r, error, response, body)
    /\ IF error # Null
       THEN /\ promises' = Settle(requests[r].promise, "rejected", error)
            /\ UNCHANGED uncaught
       ELSE IF response.statusCode # 200
       THEN /\ promises' = Settle(requests[r].promise, "rejected", response)
            /\ UNCHANGED uncaught
       ELSE LET parsed == JSONParse(body)
            IN  IF parsed.threw
                THEN /\ uncaught' = Append(uncaught, [request |-> r, error |-> parsed.val])
                     /\ UNCHANGED promises
                ELSE /\ promises' = Settle(requests[r].promise, "resolved", parsed.val)
                     /\ UNCHANGED uncaught
    /\ UNCHANGED <<apps, calls, thrown>>

\* RequestCallback issuing the request again after a transport error.
RequestCallbackRetries(r, error, response, body) ==
    /\ IF error # Null
       THEN /\ requests' = Append(Delivered(r, error, response, body),
                                  [requests[r] EXCEPT !.completed = FALSE])
            /\ UNCHANGED <<promises, uncaught>>
       ELSE /\ requests' = Delivered(r, error, response, body)
            /\ LET parsed == JSONParse(body)
               IN  IF parsed.threw
                   THEN /\ uncaught' = Append(uncaught, [request |-> r, error |-> parsed.val])
                        /\ UNCHANGED promises
                   ELSE /\ promises' = Settle(requests[r].promise, "resolved", parsed.val)
                        /\ UNCHANGED uncaught
    /\ UNCHANGED <<apps, calls, thrown>>

\* The callback callApi hands to the transport, invoked for request r.
RequestCallback(r, error, response, body) ==
    /\ requests' = Delivered(r, error, response, body)
    /\ IF error # Null
       THEN /\ promises' = Settle(requests[r].promise, "rejected", error)
            /\ UNCHANGED uncaught
       ELSE LET parsed == JSONParse(body)
            IN  IF parsed.threw
                THEN /\ uncaught' = Append(uncaught, [request |-> r, error |-> parsed.val])
                     /\ UNCHANGED promises
                ELSE /\ promises' = Settle(requests[r].promise, "resolved", parsed.val)
                     /\ UNCHANGED uncaught
    /\ UNCHANGED <<apps, calls, thrown>>

\* The transport fails to complete the exchange of request r: it invokes
\* the callback, once, with an error and no response.
TransportError(r) ==
    /\ ~requests[r].completed
    /\ \E error \in TransportErrors : RequestCallback(r, error, Null, Null)

\* The transport delivers a response to request r: it invokes the callback,
\* once, with no error, the response and its body.
TransportResponse(r) ==
    /\ ~requests[r].completed
    /\ \E statusCode \in StatusCodes, body \in Bodies :
          RequestCallback(r, Null, [statusCode |-> statusCode], body)

\* The public surface: create, and the two operations of an Application.
Next ==
    \/ \E c \in Credentials : Create(c.applicationId, c.subscriptionKey)
    \/ \E app \in apps, query \in Queries : QueryV1(app, query)
    \/ \E app \in apps, query \in Queries : QueryV1Preview(app, query)
    \/ \E r \in 1..Len(requests) : TransportError(r)
    \/ \E r \in 1..Len(requests) : TransportResponse(r)

Spec == Init /\ [][Next]_vars

\* The dispatcher invoked from inside the module, with any version selector.
CallApiInternal ==
    \E version \in Version :
        CallApi("callApi", <<"hi">>, version, <<"app-123">>, <<"key-abc">>)

NextDispatcher == Next \/ CallApiInternal

\* The public surface together with direct invocations of the dispatcher.
SpecDispatcher == Init /\ [][NextDispatcher]_vars

(***************************************************************************)
(* What the properties refer to.                                           *)
(***************************************************************************)
Requests == 1..Len(requests)

CallOf(r) == calls[requests[r].call]

PromiseOf(r) == promises[requests[r].promise]

\* Request r is complete: the transport has invoked its callback.
Failed(r) == requests[r].completed /\ requests[r].error # Null

Responded(r) == requests[r].completed /\ requests[r].error = Null

Escaped(r) == \E u \in 1..Len(uncaught) : uncaught[u].request = r

\* The endpoints of the two operations, as the interface documents them.
V1Endpoint == <<"https://api.projectoxford.ai/luis/v1/application">>

V1PreviewEndpoint == <<"https://api.projectoxford.ai/luis/v1/application/preview">>

EndpointOf(caller) == IF caller = "queryV1Preview" THEN V1PreviewEndpoint ELSE V1Endpoint

\* The part of a URI before its query string.
Endpoint(href) ==
    LET q == IndexOf(href, "?")
    IN  IF q = 0 THEN href ELSE SubSeq(href, 1, q - 1)

RECURSIVE EncodeURIComponent(_)
\* The percent-encoding of a query-string value: a space becomes %20; the
\* other chunks of the input sets are unreserved.
EncodeURIComponent(s) ==
    IF s = <<>> THEN <<>>
    ELSE (IF Head(s) = " " THEN <<"%20">> ELSE <<Head(s)>>)
         \o EncodeURIComponent(Tail(s))

\* id=<applicationId>&subscription-key=<subscriptionKey>
CredentialParameters(applicationId, subscriptionKey) ==
    <<"id", "=">> \o EncodeURIComponent(applicationId)
    \o <<"&", "subscription-key", "=">> \o EncodeURIComponent(subscriptionKey)

\* The URI the interface documents for a call.
ExpectedUri(call) ==
    EndpointOf(call.caller) \o <<"?">>
    \o CredentialParameters(call.applicationId, call.subscriptionKey)
    \o <<"&", "q", "=">> \o EncodeURIComponent(call.query)

\* s holds sub as a contiguous part.
Contains(s, sub) ==
    \E i \in 0..(Len(s) - Len(sub)) : SubSeq(s, i + 1, i + Len(sub)) = sub

(***************************************************************************)
(* The properties.                                                         *)
(***************************************************************************)

\* C1: the URI handed to the transport is the base endpoint followed by
\* id = applicationId, subscription-key = subscriptionKey and q = query; it
\* is never the bare base endpoint.
C1_RequestUriCarriesParameters ==
    \A r \in Requests :
        /\ requests[r].href = ExpectedUri(CallOf(r))
        /\ requests[r].href # EndpointOf(CallOf(r).caller)

\* C2: when a response is delivered without a transport error and its body
\* is not valid JSON, the promise is rejected with the parse failure, and the
\* failure is not thrown out of the transport callback.
C2_ParseFailureRejects ==
    \A r \in Requests :
        Responded(r) /\ JSONParse(requests[r].body).threw
            => /\ PromiseOf(r).state = "rejected"
               /\ PromiseOf(r).value = JSONParse(requests[r].body).val
               /\ ~Escaped(r)

\* C3: once the transport has invoked the callback of a call's request (with
\* an error, or with a response of any body), the promise is settled, and
\* resolve/reject has been invoked exactly once.
C3_SettledExactlyOnce ==
    \A r \in Requests :
        requests[r].completed
            => /\ PromiseOf(r).state \in {"resolved", "rejected"}
               /\ PromiseOf(r).settles = 1

\* C4: when the transport signals an error, the promise is rejected with
\* that same error value and is not resolved, and the body is not parsed
\* (no parse failure arises from the call).
C4_TransportErrorRejects ==
    \A r \in Requests :
        Failed(r)
            => /\ PromiseOf(r).state = "rejected"
               /\ PromiseOf(r).value = requests[r].error
               /\ PromiseOf(r).settles = 1
               /\ ~Escaped(r)

\* Some request failed in the transport and its promise is rejected, while
\* another request is still in flight.
C4_Witness ==
    \E r, r2 \in Requests :
        /\ Failed(r)
        /\ PromiseOf(r).state = "rejected"
        /\ ~requests[r2].completed

\* C5: every request of queryV1 targets the V1 endpoint and every request of
\* queryV1Preview targets the preview endpoint, whatever the credentials and
\* the query.
C5_EndpointFixedPerOperation ==
    \A r \in Requests :
        /\ CallOf(r).caller = "queryV1"
              => /\ Endpoint(requests[r].href) = V1Endpoint
                 /\ Endpoint(requests[r].href) # V1PreviewEndpoint
        /\ CallOf(r).caller = "queryV1Preview"
              => /\ Endpoint(requests[r].href) = V1PreviewEndpoint
                 /\ Endpoint(requests[r].href) # V1Endpoint

\* A queryV1 request and a queryV1Preview request, made with different
\* credentials and different queries.
C5_Witness ==
    \E r, r2 \in Requests :
        /\ CallOf(r).caller = "queryV1"
        /\ CallOf(r2).caller = "queryV1Preview"
        /\ CallOf(r).applicationId # CallOf(r2).applicationId
        /\ CallOf(r).query # CallOf(r2).query

\* C6: when a response is delivered without a transport error and its body
\* is valid JSON, the promise is resolved with the parsed body, whatever the
\* status code; the document {"q": [1]} resolves to an object whose only
\* member q is the array of the number 1.
C6_ValidJsonResolves ==
    \A r \in Requests :
        Responded(r) /\ ~JSONParse(requests[r].body).threw
            => /\ PromiseOf(r).state = "resolved"
               /\ PromiseOf(r).value = JSONParse(requests[r].body).val
               /\ requests[r].body.str = WellFormedBody
                     => PromiseOf(r).value = [obj |-> (<<"q">> :> [arr |-> <<[num |-> 1]>>])]
               /\ ~Escaped(r)

\* A response of status 401 and one of status 200, both with a valid JSON
\* body, both resolved.
C6_Witness ==
    \E r, r2 \in Requests :
        /\ Responded(r) /\ Responded(r2)
        /\ requests[r].response.statusCode = 401
        /\ requests[r2].response.statusCode = 200
        /\ ~JSONParse(requests[r].body).threw
        /\ ~JSONParse(requests[r2].body).threw
        /\ PromiseOf(r).state = "resolved"
        /\ PromiseOf(r2).state = "resolved"

\* Each promise belongs to one request, and is settled only by what the
\* transport delivered to that request.
SettledByOwnRequest ==
    \A p \in 1..Len(promises) :
        /\ Cardinality({r \in Requests : requests[r].promise = p}) = 1
        /\ \A r \in Requests :
              requests[r].promise = p =>
                 /\ requests[r].call = promises[p].call
                 /\ ~requests[r].completed => promises[p].state = "pending"
                 /\ promises[p].state = "rejected"
                       => Failed(r) /\ promises[p].value = requests[r].error
                 /\ promises[p].state = "resolved"
                       => /\ Responded(r)
                          /\ promises[p].value = JSONParse(requests[r].body).val

\* C7: under every interleaving of the transport callbacks, each promise is
\* settled only by the outcome of its own request, and each request carries
\* the endpoint, the credentials and the query of its own call.
C7_NoCrossTalk ==
    /\ SettledByOwnRequest
    /\ \A r \in Requests :
          /\ Endpoint(requests[r].href) = EndpointOf(CallOf(r).caller)
          /\ Contains(requests[r].href,
                      CredentialParameters(CallOf(r).applicationId,
                                           CallOf(r).subscriptionKey))
          /\ Contains(requests[r].href,
                      <<"&", "q", "=">> \o EncodeURIComponent(CallOf(r).query))

\* C8: every call issues exactly one request, and none is issued after a
\* transport error, a parse failure or a non-success status.
C8_OneRequestPerCall ==
    /\ Len(requests) = Len(calls)
    /\ \A c \in 1..Len(calls) :
          Cardinality({r \in Requests : requests[r].call = c}) = 1

\* One call ended in a transport error, another in a parse failure of a
\* response of status 401.
C8_Witness ==
    \E r, r2 \in Requests :
        /\ Failed(r)
        /\ Responded(r2)
        /\ requests[r2].response.statusCode = 401
        /\ JSONParse(requests[r2].body).threw

\* C9: create issues no request and raises no error, a request is issued
\* only by a query call, and every request made through an application
\* carries the credentials given to create.
C9_CreateIsPureConstruction ==
    /\ thrown = <<>>
    /\ calls = <<>> => requests = <<>>
    /\ \A r \in Requests :
          /\ [applicationId |-> CallOf(r).applicationId,
              subscriptionKey |-> CallOf(r).subscriptionKey] \in apps
          /\ Contains(requests[r].href,
                      CredentialParameters(CallOf(r).applicationId,
                                           CallOf(r).subscriptionKey))

\* C10: a call of the dispatcher with the selector None throws, with no
\* request issued and no promise created for it; a call made by queryV1 or
\* queryV1Preview passes V1 or V1Preview and does not throw.
C10_UnsupportedVersionThrows ==
    \A c \in 1..Len(calls) :
        /\ calls[c].version = "None"
              => /\ \E t \in 1..Len(thrown) : thrown[t].call = c
                 /\ \A r \in Requests : requests[r].call # c
                 /\ \A p \in 1..Len(promises) : promises[p].call # c
        /\ calls[c].caller \in {"queryV1", "queryV1Preview"}
              => /\ calls[c].version \in {"V1", "V1Preview"}
                 /\ \A t \in 1..Len(thrown) : thrown[t].call # c
                 /\ \E r \in Requests : requests[r].call = c

\* The dispatcher was invoked with None and threw, and a public operation
\* was invoked too.
C10_Witness ==
    \E c, c2 \in 1..Len(calls) :
        /\ calls[c].version = "None"
        /\ \E t \in 1..Len(thrown) : thrown[t].call = c
        /\ calls[c2].caller \in {"queryV1", "queryV1Preview"}

=============================================================================
